---- MODULE Spec2Model ----
(***************************************************************************)
(* A model of syn's src/synom.rs: the blanket Synom::parse, the atomic     *)
(* Parse rules (TokenStream, TokenTree, Group, Punct, Literal), the Parser *)
(* entry points (parse2, parse, parse_str) and IdentExt (parse_any,        *)
(* parse_any2).  Cursor, ParseBuffer, TokenBuffer and Error live in other  *)
(* files of the crate (buffer.rs, parse.rs, error.rs); they are modelled   *)
(* from the specification of those components.                             *)
(***************************************************************************)
EXTENDS Integers, Sequences, FiniteSets, TLC

\* Longest source text, in lexemes.
MaxText == 3
\* Longest wrapped parser function, in rule invocations.
MaxProg == 2

(***************************************************************************)
(* Tokens.  Every token is a record of one shape; a leaf has delim "none"  *)
(* and no inner tokens, a group has its delimiter and its inner stream.    *)
(* span is the source position (lexeme offset) the token starts at.        *)
(***************************************************************************)
Parenthesis == "Parenthesis"
Brace == "Brace"
Bracket == "Bracket"

Leaf(kind, text, span) ==
  [kind |-> kind, text |-> text, delim |-> "none", inner |-> <<>>, span |-> span]

\* proc_macro2::Group::new(delim, stream) followed by set_span(span)
GroupNew(delim, stream, span) ==
  [kind |-> "group", text |-> "", delim |-> delim, inner |-> stream, span |-> span]

\* Span::call_site()
CallSite == 0

(***************************************************************************)
(* The lexer (str::parse::<TokenStream>, proc_macro2).  A source text is a *)
(* sequence of lexemes; delimiters must balance and a lone double quote is *)
(* an unterminated string literal.                                         *)
(***************************************************************************)
Lexemes == {"a", "impl", ",", "1", "(", ")", "{", "}", "[", "]", "\""}

LeafKind(x) ==
  CASE x \in {"a", "impl"} -> "ident"
    [] x = "," -> "punct"
    [] x = "1" -> "literal"
    [] OTHER -> "none"

OpenDelim(x) ==
  CASE x = "(" -> Parenthesis
    [] x = "{" -> Brace
    [] x = "[" -> Bracket
    [] OTHER -> "none"

CloseDelim(x) ==
  CASE x = ")" -> Parenthesis
    [] x = "}" -> Brace
    [] x = "]" -> Bracket
    [] OTHER -> "none"

RECURSIVE TextsUpTo(_)
TextsUpTo(n) ==
  IF n = 0 THEN {<<>>}
  ELSE LET S == TextsUpTo(n - 1)
       IN S \cup {Append(t, x) : t \in {u \in S : Len(u) = n - 1}, x \in Lexemes}

Texts == TextsUpTo(MaxText)

\* stack: the open groups, innermost last; frame 1 is the top level.
RECURSIVE LexFrom(_, _, _)
LexFrom(s, i, stack) ==
  IF i > Len(s)
  THEN IF Len(stack) = 1
       THEN [ok |-> TRUE, tokens |-> stack[1].toks]
       ELSE [ok |-> FALSE, tokens |-> <<>>]
  ELSE LET x == s[i]
           n == Len(stack)
           top == stack[n]
       IN IF LeafKind(x) # "none"
          THEN LexFrom(s, i + 1,
                 [stack EXCEPT ![n].toks = Append(@, Leaf(LeafKind(x), x, i))])
          ELSE IF OpenDelim(x) # "none"
          THEN LexFrom(s, i + 1,
                 Append(stack, [delim |-> OpenDelim(x), span |-> i, toks |-> <<>>]))
          ELSE IF CloseDelim(x) # "none" /\ n > 1 /\ top.delim = CloseDelim(x)
          THEN LexFrom(s, i + 1,
                 [SubSeq(stack, 1, n - 1) EXCEPT
                    ![n - 1].toks = Append(@, GroupNew(top.delim, top.toks, top.span))])
          ELSE [ok |-> FALSE, tokens |-> <<>>]

Lex(s) == LexFrom(s, 1, <<[delim |-> "top", span |-> CallSite, toks |-> <<>>]>>)

(***************************************************************************)
(* Cursor (buffer.rs): an immutable position in a token buffer, held here  *)
(* as the tokens that remain at the cursor's nesting level.  Each accessor *)
(* returns None (<<>>) or Some (<<[tok, rest]>>) and never changes the     *)
(* cursor it was given.                                                    *)
(***************************************************************************)
\* TokenBuffer::new2(tokens).begin()
BufferBegin(tokens) == tokens

\* Cursor::empty()
CursorEmpty == <<>>

\* Cursor::eof()
Eof(c) == c = <<>>

\* Cursor::span(): the next token's span, the call site at the end
CursorSpan(c) == IF Eof(c) THEN CallSite ELSE Head(c).span

\* Cursor::token_stream(): every token left at this level
CursorTokenStream(c) == c

\* Cursor::token_tree()
CursorTokenTree(c) ==
  IF Eof(c) THEN <<>> ELSE <<[tok |-> Head(c), rest |-> Tail(c)]>>

CursorKind(c, kind) ==
  IF ~Eof(c) /\ Head(c).kind = kind
  THEN <<[tok |-> Head(c), rest |-> Tail(c)]>>
  ELSE <<>>

\* Cursor::ident(): any identifier token, keywords included
CursorIdent(c) == CursorKind(c, "ident")

\* Cursor::punct()
CursorPunct(c) == CursorKind(c, "punct")

\* Cursor::literal()
CursorLiteral(c) == CursorKind(c, "literal")

\* Cursor::group(delim): (cursor over the inside, the group's span, the rest)
CursorGroup(c, delim) ==
  IF ~Eof(c) /\ Head(c).kind = "group" /\ Head(c).delim = delim
  THEN <<[inside |-> Head(c).inner, span |-> Head(c).span, rest |-> Tail(c)]>>
  ELSE <<>>

\* Every cursor into a token stream: each position of each nesting level.
RECURSIVE CursorsOf(_)
CursorsOf(toks) ==
  {SubSeq(toks, i, Len(toks)) : i \in 1..(Len(toks) + 1)}
    \cup UNION {CursorsOf(toks[i].inner) : i \in 1..Len(toks)}

\* All spans of the tokens of a stream, at every level.
RECURSIVE SpansOf(_)
SpansOf(toks) ==
  {toks[i].span : i \in 1..Len(toks)}
    \cup UNION {SpansOf(toks[i].inner) : i \in 1..Len(toks)}

IsSuffix(c, d) ==
  \E i \in 1..(Len(d) + 1) : c = SubSeq(d, i, Len(d))

(***************************************************************************)
(* Errors and results.  An Error is a span and a message.  A Result has a  *)
(* sequence of parsed values on success; a PResult adds the remaining      *)
(* cursor as rest = <<cursor>>.                                            *)
(***************************************************************************)
NoError == [span |-> CallSite, msg |-> ""]

\* Error::new(span, message)
ErrorNew(span, msg) == [span |-> span, msg |-> msg]

\* Cursor::error(message)
CursorError(c, msg) == ErrorNew(CursorSpan(c), msg)

\* error::parse_error(): the generic failure of the cursor-based interface
ParseErrorGeneric == [ok |-> FALSE, val |-> <<>>, rest |-> <<>>,
                      err |-> ErrorNew(CallSite, "failed to parse")]

Ok(vals) == [ok |-> TRUE, val |-> vals, rest |-> <<>>, err |-> NoError]

OkRest(vals, rest) == [ok |-> TRUE, val |-> vals, rest |-> <<rest>>, err |-> NoError]

Err(e) == [ok |-> FALSE, val |-> <<>>, rest |-> <<>>, err |-> e]

\* A parsed value: which rule produced it and the tokens it holds.
Value(tag, toks) == [tag |-> tag, toks |-> toks]

(***************************************************************************)
(* The heap of diagnostic cells, Rc<Cell<Option<Span>>>.  A cell holds     *)
(* <<>> (None) or <<span>> (Some).                                         *)
(***************************************************************************)
EmptyHeap == [next |-> 1, val |-> <<>>]

\* Rc::new(Cell::new(None)), with a cell that already exists handed out again
NewCellShared(heap) ==
  IF heap.next > 1
  THEN [id |-> 1, heap |-> heap]
  ELSE [id |-> heap.next,
        heap |-> [next |-> heap.next + 1, val |-> Append(heap.val, <<>>)]]

\* Rc::new(Cell::new(None))
NewCell(heap) ==
  [id |-> heap.next,
   heap |-> [next |-> heap.next + 1, val |-> Append(heap.val, <<>>)]]

(***************************************************************************)
(* ParseBuffer (parse.rs): a cursor, the scope span and the shared cell.   *)
(***************************************************************************)
\* ParseBuffer::new(scope, cursor, unexpected)
ParseBufferNew(scope, cursor, unexpected) ==
  [scope |-> scope, cursor |-> cursor, cell |-> unexpected]

\* ParseBuffer::cursor()
StateCursor(state) == state.cursor

\* ParseBuffer::step_cursor(f): r is f applied to the current cursor
StepCursor(state, heap, r) ==
  IF r.ok
  THEN [res |-> Ok(r.val), state |-> [state EXCEPT !.cursor = r.rest[1]], heap |-> heap]
  ELSE [res |-> Err(r.err), state |-> state, heap |-> heap]

\* record unexpected: an empty cell, or a strictly further span, is replaced
RecordUnexpected(state, heap, span) ==
  LET cur == heap.val[state.cell]
  IN IF cur = <<>> \/ span > cur[1]
     THEN [heap EXCEPT !.val[state.cell] = <<span>>]
     ELSE heap

\* ParseBuffer::check_unexpected()
CheckUnexpected(state, heap) ==
  LET cur == heap.val[state.cell]
  IN IF cur = <<>> THEN Ok(<<>>) ELSE Err(ErrorNew(cur[1], "unexpected token"))

(***************************************************************************)
(* The atomic rules of synom.rs.  Each is step_cursor applied to a closure *)
(* over the raw cursor; it maps a parse state and the heap to the result,  *)
(* the parse state afterwards and the heap afterwards.                     *)
(***************************************************************************)
\* impl Parse for TokenStream, keeping the cursor where it was
ParseTokenStreamStay(state, heap) ==
  LET cursor == state.cursor
  IN StepCursor(state, heap,
       OkRest(<<Value("TokenStream", CursorTokenStream(cursor))>>, cursor))

\* impl Parse for TokenStream
ParseTokenStream(state, heap) ==
  LET cursor == state.cursor
  IN StepCursor(state, heap,
       OkRest(<<Value("TokenStream", CursorTokenStream(cursor))>>, CursorEmpty))

\* impl Parse for TokenTree
ParseTokenTree(state, heap) ==
  LET cursor == state.cursor
      m == CursorTokenTree(cursor)
  IN StepCursor(state, heap,
       IF m # <<>>
       THEN OkRest(<<Value("TokenTree", <<m[1].tok>>)>>, m[1].rest)
       ELSE Err(CursorError(cursor, "expected token tree")))

\* the order in which impl Parse for Group tries the delimiters
DelimOrder == <<Parenthesis, Brace, Bracket>>

\* the closure of impl Parse for Group, building every group as a parenthesis
RECURSIVE GroupClosureParen(_, _)
GroupClosureParen(cursor, i) ==
  IF i > Len(DelimOrder)
  THEN Err(CursorError(cursor, "expected group token"))
  ELSE LET m == CursorGroup(cursor, DelimOrder[i])
       IN IF m # <<>>
          THEN OkRest(<<Value("Group",
                 <<GroupNew(Parenthesis, CursorTokenStream(m[1].inside), m[1].span)>>)>>,
                 m[1].rest)
          ELSE GroupClosureParen(cursor, i + 1)

\* the closure of impl Parse for Group: the for loop from delimiter i on
RECURSIVE GroupClosure(_, _)
GroupClosure(cursor, i) ==
  IF i > Len(DelimOrder)
  THEN Err(CursorError(cursor, "expected group token"))
  ELSE LET delim == DelimOrder[i]
           m == CursorGroup(cursor, delim)
       IN IF m # <<>>
          THEN OkRest(<<Value("Group",
                 <<GroupNew(delim, CursorTokenStream(m[1].inside), m[1].span)>>)>>,
                 m[1].rest)
          ELSE GroupClosure(cursor, i + 1)

\* impl Parse for Group, every match rebuilt as a parenthesis group
ParseGroupParen(state, heap) ==
  StepCursor(state, heap, GroupClosureParen(state.cursor, 1))

\* impl Parse for Group
ParseGroup(state, heap) ==
  StepCursor(state, heap, GroupClosure(state.cursor, 1))

\* impl Parse for Punct, advancing before the kind is looked at
ParsePunctEager(state, heap) ==
  LET cursor == state.cursor
      m == CursorPunct(cursor)
  IN IF m # <<>>
     THEN StepCursor(state, heap, OkRest(<<Value("Punct", <<m[1].tok>>)>>, m[1].rest))
     ELSE [res |-> Err(CursorError(cursor, "expected punctuation token")),
           state |-> [state EXCEPT !.cursor = IF Eof(cursor) THEN cursor ELSE Tail(cursor)],
           heap |-> heap]

\* impl Parse for Punct
ParsePunct(state, heap) ==
  LET cursor == state.cursor
      m == CursorPunct(cursor)
  IN StepCursor(state, heap,
       IF m # <<>>
       THEN OkRest(<<Value("Punct", <<m[1].tok>>)>>, m[1].rest)
       ELSE Err(CursorError(cursor, "expected punctuation token")))

\* impl Parse for Literal, taking whatever token comes next
ParseLiteralAny(state, heap) ==
  LET cursor == state.cursor
      m == CursorTokenTree(cursor)
  IN StepCursor(state, heap,
       IF m # <<>>
       THEN OkRest(<<Value("Literal", <<m[1].tok>>)>>, m[1].rest)
       ELSE Err(CursorError(cursor, "expected literal token")))

\* impl Parse for Literal
ParseLiteral(state, heap) ==
  LET cursor == state.cursor
      m == CursorLiteral(cursor)
  IN StepCursor(state, heap,
       IF m # <<>>
       THEN OkRest(<<Value("Literal", <<m[1].tok>>)>>, m[1].rest)
       ELSE Err(CursorError(cursor, "expected literal token")))

(***************************************************************************)
(* IdentExt for Ident.                                                     *)
(***************************************************************************)
Keywords == {"impl"}

\* IdentExt::parse_any, turning reserved words away as the plain rule does
ParseAnyPlain(input) ==
  LET m == CursorIdent(input)
  IN IF m # <<>> /\ m[1].tok.text \notin Keywords
     THEN OkRest(<<Value("Ident", <<m[1].tok>>)>>, m[1].rest)
     ELSE ParseErrorGeneric

\* IdentExt::parse_any: input.ident().map_or_else(parse_error, Ok)
ParseAny(input) ==
  LET m == CursorIdent(input)
  IN IF m # <<>>
     THEN OkRest(<<Value("Ident", <<m[1].tok>>)>>, m[1].rest)
     ELSE ParseErrorGeneric

\* IdentExt::parse_any2
ParseAny2(state, heap) ==
  LET cursor == state.cursor
      m == CursorIdent(cursor)
  IN StepCursor(state, heap,
       IF m # <<>>
       THEN OkRest(<<Value("Ident", <<m[1].tok>>)>>, m[1].rest)
       ELSE Err(CursorError(cursor, "expected ident")))

(***************************************************************************)
(* Rules by name.  "Unexpected" is a rule of a caller's own that flags the *)
(* next token in the shared cell and succeeds.                             *)
(***************************************************************************)
FlagUnexpected(state, heap) ==
  [res |-> Ok(<<>>), state |-> state,
   heap |-> RecordUnexpected(state, heap, CursorSpan(state.cursor))]

\* the types T: Parse that Synom::parse is instantiated at
ParseTypes == {"TokenStream", "TokenTree", "Group", "Punct", "Literal", "Unexpected"}

\* <T as Parse>::parse(&state), and Ident::parse_any2
ParseRule(T, state, heap) ==
  CASE T = "TokenStream" -> ParseTokenStream(state, heap)
    [] T = "TokenTree" -> ParseTokenTree(state, heap)
    [] T = "Group" -> ParseGroup(state, heap)
    [] T = "Punct" -> ParsePunct(state, heap)
    [] T = "Literal" -> ParseLiteral(state, heap)
    [] T = "Ident" -> ParseAny2(state, heap)
    [] T = "Unexpected" -> FlagUnexpected(state, heap)

(***************************************************************************)
(* The blanket impl<T: Parse> Synom for T.  The result record also reports *)
(* the heap afterwards, the cell created and the lower-level rule's own    *)
(* outcome (run).                                                          *)
(***************************************************************************)
\* the end of Synom::parse, handing back the cursor it was given
SynomReturnStale(r, input, cell) ==
  IF ~r.res.ok
  THEN [res |-> Err(r.res.err), heap |-> r.heap, cell |-> cell, run |-> r]
  ELSE IF ~CheckUnexpected(r.state, r.heap).ok
  THEN [res |-> Err(CheckUnexpected(r.state, r.heap).err), heap |-> r.heap,
        cell |-> cell, run |-> r]
  ELSE [res |-> OkRest(r.res.val, input), heap |-> r.heap, cell |-> cell, run |-> r]

\* the end of Synom::parse, r being the outcome of <T as Parse>::parse(&state):
\* `?`, state.check_unexpected()?, Ok((node, state.cursor()))
SynomReturn(r, input, cell) ==
  IF ~r.res.ok
  THEN [res |-> Err(r.res.err), heap |-> r.heap, cell |-> cell, run |-> r]
  ELSE IF ~CheckUnexpected(r.state, r.heap).ok
  THEN [res |-> Err(CheckUnexpected(r.state, r.heap).err), heap |-> r.heap,
        cell |-> cell, run |-> r]
  ELSE [res |-> OkRest(r.res.val, StateCursor(r.state)), heap |-> r.heap,
        cell |-> cell, run |-> r]

\* Synom::parse once its cell a exists: the parse state and the rule's call
SynomWith(T, input, a) ==
  SynomReturn(ParseRule(T, ParseBufferNew(CallSite, input, a.id), a.heap), input, a.id)

\* Synom::parse(input)
SynomParse(T, input, heap) == SynomWith(T, input, NewCell(heap))

(***************************************************************************)
(* The wrapped parser function F: FnOnce(ParseStream) -> Result<T>.  It is *)
(* a sequence of rule invocations on the parse state it is handed, each    *)
(* followed by `?`; its node is the values the rules returned.  "Synom"    *)
(* is a call of the cursor-based Synom::parse (at TokenTree) on the        *)
(* current cursor, stepped over with step_cursor.  The functions modelled  *)
(* draw their steps from: a rule that takes any token, a rule that takes   *)
(* one kind of token, the flagging rule and the nested cursor-based call.  *)
(***************************************************************************)
Steps == {"TokenTree", "Punct", "Unexpected", "Synom"}

RECURSIVE ProgsUpTo(_)
ProgsUpTo(n) ==
  IF n = 0 THEN {<<>>}
  ELSE LET S == ProgsUpTo(n - 1)
       IN S \cup {Append(f, x) : f \in {g \in S : Len(g) = n - 1}, x \in Steps}

Progs == ProgsUpTo(MaxProg)

\* input.step_cursor(|cursor| T::parse(cursor)), out being T::parse(cursor)
StepOver(state, out) == StepCursor(state, out.heap, out.res)

RunStep(name, state, heap) ==
  IF name = "Synom"
  THEN StepOver(state, SynomParse("TokenTree", state.cursor, heap))
  ELSE ParseRule(name, state, heap)

RECURSIVE RunProg(_, _, _, _, _), AfterStep(_, _, _, _)
\* rule i has returned r: `?`, then the rest of the function
AfterStep(f, i, r, vals) ==
  IF r.res.ok
  THEN RunProg(f, i + 1, r.state, r.heap, vals \o r.res.val)
  ELSE [res |-> Err(r.res.err), state |-> r.state, heap |-> r.heap]

RunProg(f, i, state, heap, vals) ==
  IF i > Len(f)
  THEN [res |-> Ok(vals), state |-> state, heap |-> heap]
  ELSE AfterStep(f, i, RunStep(f[i], state, heap), vals)

\* self(&state)
Call(f, state, heap) == RunProg(f, 1, state, heap, <<>>)

(***************************************************************************)
(* The Parser entry points.  Besides the result and the heap each reports  *)
(* the cell it created (0 when none), whether the wrapped function was     *)
(* called, and the outcome of that call (run).                             *)
(***************************************************************************)
NoRun(heap) ==
  [res |-> Err(NoError), state |-> ParseBufferNew(CallSite, <<>>, 0), heap |-> heap]

\* the end of parse2 without the check of the diagnostic cell
Parse2ReturnUnchecked(r, cell) ==
  IF ~r.res.ok
  THEN [res |-> Err(r.res.err), heap |-> r.heap, cell |-> cell, called |-> TRUE, run |-> r]
  ELSE [res |-> Ok(r.res.val), heap |-> r.heap, cell |-> cell, called |-> TRUE, run |-> r]

\* the end of parse2, r being the outcome of self(&state):
\* `?`, state.check_unexpected()?, Ok(node)
Parse2Return(r, cell) ==
  IF ~r.res.ok
  THEN [res |-> Err(r.res.err), heap |-> r.heap, cell |-> cell, called |-> TRUE, run |-> r]
  ELSE IF ~CheckUnexpected(r.state, r.heap).ok
  THEN [res |-> Err(CheckUnexpected(r.state, r.heap).err), heap |-> r.heap,
        cell |-> cell, called |-> TRUE, run |-> r]
  ELSE [res |-> Ok(r.res.val), heap |-> r.heap, cell |-> cell, called |-> TRUE, run |-> r]

\* parse2 once its cell a exists: the buffer, the parse state and the call
Parse2With(f, tokens, a) ==
  Parse2Return(Call(f, ParseBufferNew(CallSite, BufferBegin(tokens), a.id), a.heap), a.id)

\* impl Parser for F :: parse2
Parse2(f, tokens, heap) == Parse2With(f, tokens, NewCell(heap))

\* a proc_macro::TokenStream: the compiler's handle on a token stream
Handle(tokens) == [handle |-> tokens]

\* From<proc_macro::TokenStream> for proc_macro2::TokenStream
Into(h) == h.handle

\* Parser::parse (proc-macro feature)
ParseProcMacro(f, h, heap) == Parse2(f, Into(h), heap)

\* Parser::parse_str treating text that does not lex as no tokens at all
ParseStrLenient(f, s, heap) == Parse2(f, Lex(s).tokens, heap)

\* Parser::parse_str
ParseStr(f, s, heap) ==
  IF Lex(s).ok
  THEN Parse2(f, Lex(s).tokens, heap)
  ELSE [res |-> Err(ErrorNew(CallSite, "error while lexing input string")),
        heap |-> heap, cell |-> 0, called |-> FALSE, run |-> NoRun(heap)]

(***************************************************************************)
(* The state machine: one source text, and one operation applied to it or  *)
(* to a cursor into its tokens.                                            *)
(***************************************************************************)
VARIABLES
  src,    \* the source text
  heap,   \* the diagnostic cells created so far
  last    \* the operation that ran: its inputs and everything it returned

vars == <<src, heap, last>>

Idle ==
  [op |-> "none", f |-> <<>>, input |-> <<>>, cell |-> 0, cell0 |-> <<>>,
   called |-> FALSE, res |-> Err(NoError), run |-> NoRun(EmptyHeap),
   heap0 |-> EmptyHeap]

Init ==
  /\ src \in Texts
  /\ heap = EmptyHeap
  /\ last = Idle

Tokens == Lex(src).tokens

\* the contents a diagnostic cell over these tokens can have
CellValues == {<<>>} \cup {<<sp>> : sp \in SpansOf(Tokens)}

Ready == last.op = "none"

Returned(op, f, input, out) ==
  /\ heap' = out.heap
  /\ last' = [op |-> op, f |-> f, input |-> input, cell |-> out.cell, cell0 |-> <<>>,
              called |-> out.called, res |-> out.res, run |-> out.run, heap0 |-> heap]
  /\ UNCHANGED src

\* f.parse2(tokens)
DoParse2 ==
  /\ Ready /\ Lex(src).ok
  /\ \E f \in Progs : Returned("parse2", f, Tokens, Parse2(f, Tokens, heap))

\* f.parse(tokens)
DoParse ==
  /\ Ready /\ Lex(src).ok
  /\ \E f \in Progs :
       Returned("parse", f, Tokens, ParseProcMacro(f, Handle(Tokens), heap))

\* f.parse_str(src)
DoParseStr ==
  /\ Ready
  /\ \E f \in Progs : Returned("parse_str", f, Tokens, ParseStr(f, src, heap))

SynomOut(out) ==
  [res |-> out.res, heap |-> out.heap, cell |-> out.cell, called |-> TRUE,
   run |-> out.run]

\* <T as Synom>::parse(cursor)
DoSynomParse ==
  /\ Ready /\ Lex(src).ok
  /\ \E T \in ParseTypes, c \in CursorsOf(Tokens) :
       Returned("synom", <<T>>, c, SynomOut(SynomParse(T, c, heap)))

\* Ident::parse_any(cursor)
DoParseAny ==
  /\ Ready /\ Lex(src).ok
  /\ \E c \in CursorsOf(Tokens) :
       Returned("parse_any", <<"Ident">>, c,
         [res |-> ParseAny(c), heap |-> heap, cell |-> 0,
          called |-> FALSE, run |-> NoRun(heap)])

RuleReturned(T, c, u, cell, h0, r) ==
  /\ heap' = r.heap
  /\ last' = [op |-> "rule", f |-> <<T>>, input |-> c, cell |-> cell,
              cell0 |-> u, called |-> TRUE, res |-> r.res, run |-> r, heap0 |-> h0]
  /\ UNCHANGED src

\* the parse state at cursor c whose cell a holds u, and T's rule applied to it
RuleOn(T, c, u, a, h0) ==
  RuleReturned(T, c, u, a.id, h0, ParseRule(T, ParseBufferNew(CallSite, c, a.id), h0))

RuleWith(T, c, u, a) == RuleOn(T, c, u, a, [a.heap EXCEPT !.val[a.id] = u])

\* A rule applied to a parse state at any cursor, with any cell contents.
DoRule(T) ==
  /\ Ready /\ Lex(src).ok
  /\ \E c \in CursorsOf(Tokens), u \in CellValues : RuleWith(T, c, u, NewCell(heap))

DoTokenStream == DoRule("TokenStream")
DoTokenTree == DoRule("TokenTree")
DoGroup == DoRule("Group")
DoPunct == DoRule("Punct")
DoLiteral == DoRule("Literal")
DoParseAny2 == DoRule("Ident")
DoUnexpected == DoRule("Unexpected")

Next ==
  \/ DoParse2
  \/ DoParse
  \/ DoParseStr
  \/ DoSynomParse
  \/ DoParseAny
  \/ DoTokenStream
  \/ DoTokenTree
  \/ DoGroup
  \/ DoPunct
  \/ DoLiteral
  \/ DoParseAny2
  \/ DoUnexpected

Spec == Init /\ [][Next]_vars

(***************************************************************************)
(* What the operation that ran was given and what it left behind.          *)
(***************************************************************************)
\* the operation ran a lower-level rule or wrapped function, which succeeded
InnerOk == last.called /\ last.run.res.ok

\* the parse state's cursor when the rule or wrapped function returned
CursorAfter == last.run.state.cursor

\* the contents of the operation's own cell when the wrapped function returned
CellAfter == last.run.heap.val[last.cell]

IsRule(T) == last.op = "rule" /\ last.f = <<T>>

IsSynom(T) == last.op = "synom" /\ last.f = <<T>>

EntryPoints == {"parse2", "parse", "parse_str"}

RECURSIVE Count(_, _)
Count(f, x) ==
  IF f = <<>> THEN 0 ELSE (IF Head(f) = x THEN 1 ELSE 0) + Count(Tail(f), x)

RECURSIVE Without(_, _)
Without(f, x) ==
  IF f = <<>> THEN <<>>
  ELSE IF Head(f) = x THEN Without(Tail(f), x) ELSE <<Head(f)>> \o Without(Tail(f), x)

(***************************************************************************)
(* C1.  When the wrapped function succeeds and leaves a token unconsumed,  *)
(* parse2 (and parse_str, on text that lexes) returns an error, never      *)
(* Ok(node).                                                               *)
(***************************************************************************)
C1_TrailingTokensAreAnError ==
  (last.op \in {"parse2", "parse_str"} /\ InnerOk /\ ~Eof(CursorAfter))
    => ~last.res.ok

(***************************************************************************)
(* C2.  In every driver (parse2, parse, parse_str, Synom::parse): when the *)
(* wrapped function succeeded and the cell holds a recorded span, the      *)
(* driver returns the unexpected-token error at that span; it returns Ok   *)
(* only when the wrapped function succeeded and the cell is empty.         *)
(***************************************************************************)
C2_RecordedErrorSurfaces ==
  last.op \in EntryPoints \cup {"synom"} =>
    /\ (InnerOk /\ CellAfter # <<>>) =>
         last.res = Err(ErrorNew(CellAfter[1], "unexpected token"))
    /\ last.res.ok => (InnerOk /\ CellAfter = <<>>)

C2_Witness ==
  /\ last.op = "parse2"
  /\ InnerOk
  /\ CellAfter # <<>>
  /\ Eof(CursorAfter)
  /\ ~last.res.ok

(***************************************************************************)
(* C3.  Rollback: when TokenTree, Group, Punct, Literal or parse_any2      *)
(* fails, the parse state's cursor is the cursor before the call and the   *)
(* heap of cells is as it was; when Synom::parse or parse_any fails, no    *)
(* cursor is handed back, so the caller's cursor is the one it passed.     *)
(***************************************************************************)
C3_FailureRollsBack ==
  /\ (last.op = "rule" /\ last.f[1] \in {"TokenTree", "Group", "Punct", "Literal", "Ident"}
        /\ ~last.res.ok)
       => (CursorAfter = last.input /\ heap = last.heap0 /\ CellAfter = last.cell0)
  /\ (last.op \in {"synom", "parse_any"} /\ ~last.res.ok) => last.res.rest = <<>>

C3_Witness ==
  /\ IsRule("Punct")
  /\ ~last.res.ok
  /\ Len(last.input) >= 2
  /\ last.cell0 # <<>>

(***************************************************************************)
(* C4.  Every invocation of a driver creates one cell of its own: a cell   *)
(* that did not exist before, that is the cell of the parse state the      *)
(* wrapped function works on, and that is empty unless that invocation     *)
(* flagged a token.  A cursor-based Synom::parse called inside parse2 gets *)
(* another new cell, and what the outer invocation flagged changes neither *)
(* that cell nor the outcome of the wrapped function.                      *)
(***************************************************************************)
C4_OneCellPerInvocation ==
  last.op \in EntryPoints \cup {"synom"} /\ last.called =>
    /\ last.cell \notin 1..Len(last.heap0.val)
    /\ last.cell \in 1..Len(heap.val)
    /\ last.run.state.cell = last.cell
    /\ Count(last.f, "Unexpected") = 0 => CellAfter = <<>>
    /\ \A id \in 1..Len(heap.val) : id # last.cell => heap.val[id] = <<>>
    /\ (last.op \in EntryPoints /\ InnerOk) =>
         Len(heap.val) = Len(last.heap0.val) + 1 + Count(last.f, "Synom")
    /\ last.op \in EntryPoints =>
         LET state == ParseBufferNew(CallSite, last.input, last.cell)
             h == [next |-> last.cell + 1, val |-> [i \in 1..last.cell |-> <<>>]]
         IN last.run.res = Call(Without(last.f, "Unexpected"), state, h).res

C4_Witness ==
  /\ last.op = "parse2"
  /\ last.f = <<"Unexpected", "Synom">>
  /\ InnerOk
  /\ CellAfter # <<>>
  /\ Len(heap.val) = 2
  /\ ~last.res.ok

(***************************************************************************)
(* C5.  parse_str on text that does not lex returns the error "error while *)
(* lexing input string" at the call site, without calling the wrapped      *)
(* function or creating a cell; on text that lexes to ts it returns what   *)
(* parse2 returns on ts.                                                   *)
(***************************************************************************)
C5_ParseStr ==
  last.op = "parse_str" =>
    /\ ~Lex(src).ok =>
         /\ last.res = Err(ErrorNew(CallSite, "error while lexing input string"))
         /\ ~last.called
         /\ heap = last.heap0
    /\ Lex(src).ok =>
         /\ last.res = Parse2(last.f, Lex(src).tokens, last.heap0).res
         /\ last.called

C5_Witness ==
  /\ last.op = "parse_str"
  /\ ~Lex(src).ok
  /\ last.f # <<>>
  /\ ~last.res.ok

(***************************************************************************)
(* C6.  The Group rule: when the next token is a parenthesis, brace or     *)
(* bracket group it succeeds with a group of that delimiter, that group's  *)
(* inner tokens and span, and the cursor just past it; otherwise it fails  *)
(* with "expected group token".                                            *)
(***************************************************************************)
C6_GroupRule ==
  (IsRule("Group") \/ IsSynom("Group")) =>
    LET c == last.input
    IN IF ~Eof(c) /\ Head(c).kind = "group"
       THEN /\ last.res.ok
            /\ Head(c).delim \in {Parenthesis, Brace, Bracket}
            /\ last.res.val =
                 <<Value("Group", <<GroupNew(Head(c).delim, Head(c).inner, Head(c).span)>>)>>
            /\ CursorAfter = Tail(c)
       ELSE /\ ~last.res.ok
            /\ last.res.err.msg = "expected group token"

C6_Witness ==
  /\ IsRule("Group")
  /\ last.res.ok
  /\ last.res.val[1].toks[1].delim = Brace
  /\ last.res.val[1].toks[1].inner # <<>>

(***************************************************************************)
(* C7.  The TokenStream rule never fails: it returns every token left at   *)
(* the cursor's nesting level, in order, and leaves the cursor empty.      *)
(***************************************************************************)
C7_TokenStreamTakesAll ==
  (IsRule("TokenStream") \/ IsSynom("TokenStream")) =>
    /\ last.res.ok
    /\ last.res.val = <<Value("TokenStream", last.input)>>
    /\ Eof(CursorAfter)

C7_Witness ==
  /\ IsRule("TokenStream")
  /\ Len(last.input) >= 2
  /\ last.res.ok
  /\ Eof(CursorAfter)

(***************************************************************************)
(* C8.  TokenTree, Punct and Literal take exactly one token when the next  *)
(* token is of their kind (any token, for TokenTree), returning it and     *)
(* leaving the cursor just past it; otherwise they fail with their fixed   *)
(* message and take nothing.                                               *)
(***************************************************************************)
TakesOne(T, accepts, msg) ==
  IsRule(T) =>
    LET c == last.input
    IN IF ~Eof(c) /\ accepts
       THEN /\ last.res.ok
            /\ last.res.val = <<Value(T, <<Head(c)>>)>>
            /\ CursorAfter = Tail(c)
       ELSE /\ ~last.res.ok
            /\ last.res.err.msg = msg
            /\ CursorAfter = c

NextKind == IF Eof(last.input) THEN "none" ELSE Head(last.input).kind

C8_SingleTokenRules ==
  /\ TakesOne("TokenTree", TRUE, "expected token tree")
  /\ TakesOne("Punct", NextKind = "punct", "expected punctuation token")
  /\ TakesOne("Literal", NextKind = "literal", "expected literal token")

C8_Witness ==
  /\ IsRule("Literal")
  /\ NextKind = "group"
  /\ ~last.res.ok
  /\ last.res.err.msg = "expected literal token"

(***************************************************************************)
(* C9.  When Synom::parse(C) succeeds with (node, C'), C' is the parse     *)
(* state's cursor as the lower-level rule left it, and C' is a suffix of C.*)
(***************************************************************************)
C9_SynomCursor ==
  (last.op = "synom" /\ last.res.ok) =>
    /\ last.res.rest = <<CursorAfter>>
    /\ last.res.val = last.run.res.val
    /\ IsSuffix(last.res.rest[1], last.input)

C9_Witness ==
  /\ IsSynom("TokenTree")
  /\ last.res.ok
  /\ Len(last.input) >= 2
  /\ last.res.rest = <<Tail(last.input)>>

(***************************************************************************)
(* C10.  parse_any and parse_any2 take any identifier, reserved words      *)
(* included, returning it unchanged and leaving the cursor just past it;   *)
(* they fail and take nothing when the next token is not an identifier or  *)
(* none remains; and on every cursor the two agree on success, on the      *)
(* identifier and on the remaining cursor.                                 *)
(***************************************************************************)
C10_ParseAnyForms ==
  LET c == last.input
      isIdent == NextKind = "ident"
      r1 == ParseAny(c)
      r2 == ParseAny2(ParseBufferNew(CallSite, c, last.cell), last.heap0)
  IN /\ last.op = "parse_any" =>
          /\ last.res.ok = isIdent
          /\ isIdent => /\ last.res.val = <<Value("Ident", <<Head(c)>>)>>
                        /\ last.res.rest = <<Tail(c)>>
          /\ ~isIdent => last.res.rest = <<>>
          /\ last.res.ok = r2.res.ok
          /\ last.res.val = r2.res.val
          /\ r2.state.cursor = (IF last.res.ok THEN last.res.rest[1] ELSE c)
     /\ IsRule("Ident") =>
          /\ last.res.ok = isIdent
          /\ isIdent => /\ last.res.val = <<Value("Ident", <<Head(c)>>)>>
                        /\ CursorAfter = Tail(c)
          /\ ~isIdent => CursorAfter = c
          /\ last.res.ok = r1.ok
          /\ last.res.val = r1.val
          /\ CursorAfter = (IF r1.ok THEN r1.rest[1] ELSE c)

C10_Witness ==
  /\ last.op = "parse_any"
  /\ last.res.ok
  /\ last.res.val[1].toks[1].text \in Keywords
  /\ last.res.rest # <<<<>>>>

====
